---- MODULE Spec2Model ----
(***************************************************************************)
(* A model of the OWA checker (src/owa_checker.py): the reminder tracker   *)
(* kept by OWACheck.check_calendar and OWACheck.issue_reminders, and the   *)
(* mail high-water mark kept by OWACheck.check_mail.                       *)
(*                                                                         *)
(* Times are integers counted in clock units; UnitsPerSecond units make a  *)
(* second.  Python's datetime has a resolution of one microsecond, the     *)
(* model keeps a sub-second resolution so that "a fraction of a second     *)
(* after a whole minute" is a clock reading of its own.                    *)
(***************************************************************************)
EXTENDS Integers, Sequences, FiniteSets, TLC

VARIABLES
    now,              \* the wall clock, in clock units
    running,          \* FALSE once the process has left through cleanup()
    retries,          \* self.retries
    reminders,        \* self.reminders: event id -> entry
    check_mail_last,  \* self.check_mail_last
    n_msgs_last,      \* self.n_msgs_last
    first_pass,       \* first_pass of main_loop
    op,               \* where main_loop is: "idle" between two calls, else the handler
                      \* that has just run and how it ended
    events,           \* events["value"] of the last get_week_events answer
    pre,              \* self.reminders as the running handler found it
    popen,            \* the reminder commands the last handler spawned
    fetched,          \* the answers of the remote mail calls of the last check_mail
    pre_mail,         \* check_mail_last and n_msgs_last as the last check_mail found them
    written,          \* the commands the last handler wrote to the status icon
    mailbox,          \* the unread messages of the watched folders on the server,
                      \* by receivedDateTime (followed by SpecInbox only)
    backlog,          \* mailbox as it was when the checker started
    shown,            \* receivedDateTime -> the number of polls that have shown
                      \* the message in a popup of its own
    dialog,           \* an OWAErrorDialog has been shown
    quit_delivered,   \* the status icon has got the "quit" of cleanup()
    stage,            \* what main_loop does next in its pass (followed by SpecLoop only)
    calendar_count,   \* calendar_count of main_loop
    reminder_count,   \* reminder_count of main_loop
    tick,             \* the number of passes of the loop begun so far
    ran,              \* the handlers main_loop has called in this pass, in order
    slept,            \* sleep_secs of the sleep that has just ended, in clock units
    statusicon,       \* self.statusicon: the how-manieth status icon process it is
    icon_pc,          \* where statusicon_communicate is (followed by SpecStatusIcon only)
    icon_retries,     \* retries of statusicon_communicate
    command,          \* command of statusicon_communicate
    attempts,         \* how the stdin.write calls of this command have ended, in order
    got,              \* how many times a status icon has got this command
    respawned,        \* the statusicon_init calls made for this command
    access_token,     \* OWACHECKER_SESSION['access_token'] (followed by SpecToken only)
    expires_at,       \* OWACHECKER_SESSION['expires_at'], in seconds
    refresh_token,    \* OWACHECKER_SESSION['refresh_token'], by the answer it came with
    real_expiry,      \* the instant, in clock units, at which access_token ends
    handed,           \* what the last get_access_token returned, and how
    line_pc,          \* how far the popup line has got (followed by SpecPopupLine only)
    name,             \* sender['name'] of the message
    title,            \* message['subject'], the title of send_popup
    address,          \* sender['address']
    line,             \* the line check_mail writes for the message
    split_line,       \* split_line of receive_stdin
    fired,            \* the event ids for which a reminder has been launched so far
                      \* (followed by SpecTracker only)
    popup_pc,         \* where calendar_popup.py is (followed by SpecPopup only)
    minutes_total,    \* minutes_total of CalendarPopup
    timer,            \* self.timer
    snoozed,          \* self.snoozed
    snooze_count,     \* self.snooze_count
    snooze_interval,  \* self.snooze_interval
    screensaver,      \* self.screensaver
    visible           \* whether the popup window is shown

vars == <<now, running, retries, reminders, check_mail_last, n_msgs_last,
          first_pass, op, events, pre, popen, fetched, pre_mail, written,
          mailbox, backlog, shown, dialog, quit_delivered,
          stage, calendar_count, reminder_count, tick, ran, slept,
          statusicon, icon_pc, icon_retries, command, attempts, got, respawned,
          access_token, refresh_token, expires_at, real_expiry, handed,
          line_pc, name, title, address, line, split_line,
          fired,
          popup_pc, minutes_total, timer, snoozed, snooze_count,
          snooze_interval, screensaver, visible>>

\* everything of the checker but the clock
CheckerVars == <<running, retries, reminders, check_mail_last, n_msgs_last,
                 first_pass, op, events, pre, popen, fetched, pre_mail,
                 written, dialog, quit_delivered>>

\* what is followed of the server's inbox
InboxVars == <<mailbox, backlog, shown>>

\* the locals of main_loop
LoopVars == <<stage, calendar_count, reminder_count, tick, ran, slept>>

\* the pipe to the status icon
IconVars == <<statusicon, icon_pc, icon_retries, command, attempts, got,
              respawned>>

\* the session of oauth2
TokenVars == <<access_token, refresh_token, expires_at, real_expiry, handed>>

\* a popup line on its way to the status icon
LineVars == <<line_pc, name, title, address, line, split_line>>

\* what is remembered of the reminders launched
PastVars == <<fired>>

\* a calendar popup
PopupVars == <<popup_pc, minutes_total, timer, snoozed, snooze_count,
               snooze_interval, screensaver, visible>>

\* what a handler called on its own leaves alone
SideVars == <<PopupVars, PastVars, InboxVars, LoopVars, IconVars, TokenVars, LineVars>>

\* ... and an action of one side leaves the other sides alone
NotInbox == <<LoopVars, IconVars, TokenVars, LineVars, PastVars, PopupVars>>
NotLoop == <<InboxVars, IconVars, TokenVars, LineVars, PastVars, PopupVars>>
NotIcon == <<now, CheckerVars, InboxVars, LoopVars, TokenVars, LineVars, PastVars, PopupVars>>
NotToken == <<CheckerVars, InboxVars, LoopVars, IconVars, LineVars, PastVars, PopupVars>>
NotLine == <<now, CheckerVars, InboxVars, LoopVars, IconVars, TokenVars, PastVars, PopupVars>>
NotPast == <<InboxVars, LoopVars, IconVars, TokenVars, LineVars, PopupVars>>
NotPopup == <<now, CheckerVars, InboxVars, LoopVars, IconVars, TokenVars, LineVars, PastVars>>

----------------------------------------------------------------------------
(* Program constants *)

MAX_RETRIES == 5

MAIL_POPUP_LIMIT == 4

\* lines 41-46: seconds between two passes, and the passes between two
\* issue_reminders and between two check_calendar
CHECK_INTERVAL == 5
REMINDER_MULTIPLE == 1
CALENDAR_MULTIPLE == 12

\* line 338 (seconds / 60) and timedelta(minutes=...) of line 283
SecondsPerMinute == 60

\* line 337 (days * 1440)
MinutesPerDay == 1440

\* Python's None
None == "None"

----------------------------------------------------------------------------
(* Bounds of the model *)

\* clock units in a second
UnitsPerSecond == 2

\* the clock runs from 0 to MaxMinutes whole minutes (and one unit more)
MaxMinutes == 2

\* receivedDateTime values run from 1 to MaxStamp
MaxStamp == 2

\* the largest unread count get_num_messages answers with
MaxUnread == 2

\* the longest list get_new_messages answers with
MaxMessages == 6

Minute == SecondsPerMinute * UnitsPerSecond

\* The clock readings: each whole minute, and one unit after it.
Instants == {m * Minute + d : m \in 0..MaxMinutes, d \in {0, 1}}

\* event ids of the calendar
Ids == {"A", "B"}

\* the longest list get_week_events answers with: room for every id once,
\* or for one id twice
MaxEvents == Cardinality(Ids)

\* What the calendar holds of a meeting: <<start, reminderMinutesBeforeStart,
\* subject, location>>.  The first starts a minute after time 0 with its
\* reminder due at time 0; the second starts a minute later, its reminder due
\* a minute before; the third is the second moved to another room with the
\* reminder due at the start.
Details ==
    {<<1 * Minute, 1, None, "">>,
     <<2 * Minute, 1, "Review", "Room 1">>,
     <<2 * Minute, 0, "Review", "Room 2">>}

\* The events get_week_events can answer with.  An event with the reminder
\* off or cancelled is skipped at line 269 before any other field is read,
\* so one choice of its other fields stands for all.
LiveEvents ==
    {[id |-> i, isReminderOn |-> TRUE, isCancelled |-> FALSE, start |-> d[1],
      reminderMinutesBeforeStart |-> d[2], subject |-> d[3], location |-> d[4]] :
        i \in Ids, d \in Details}

DeadEvents ==
    {[id |-> i, isReminderOn |-> f[1], isCancelled |-> f[2], start |-> Minute,
      reminderMinutesBeforeStart |-> 0, subject |-> None, location |-> ""] :
        i \in Ids, f \in {<<FALSE, FALSE>>, <<TRUE, TRUE>>}}

Events == LiveEvents \cup DeadEvents

EventLists == UNION {[1..n -> Events] : n \in 0..MaxEvents}

\* receivedDateTime values, in the order of the ISO strings they stand for
Stamps == 1..MaxStamp

\* check_mail_last before any message was seen (None, line 117); the code
\* tests for it before it compares
NoStamp == 0

\* The messages get_new_messages can answer with, one for each time of
\* arrival; those of an odd time have no subject and no sender address.
Inbox ==
    {[receivedDateTime |-> t,
      subject |-> IF t % 2 = 1 THEN None ELSE "Re: plan",
      sender |-> IF t % 2 = 1 THEN [name |-> "Ann"]
                 ELSE [name |-> "Bob", address |-> "bob@example.org"]] :
        t \in Stamps}

\* the longest answer of a remote call where only its outcome matters
MaxAnswered == 1

MessageLists == UNION {[1..n -> Inbox] : n \in 0..MaxMessages}

----------------------------------------------------------------------------
(* Helpers *)

\* dict.pop(key) / the dict without key
DictPop(d, key) == [k \in DOMAIN d \ {key} |-> d[k]]

\* d[key] = value
DictSet(d, key, value) == [k \in DOMAIN d \cup {key} |-> IF k = key THEN value ELSE d[k]]

\* the ids of a fetched list
IdsOf(evs) == {evs[i].id : i \in DOMAIN evs}

\* (mutant of Wanted: the cancelled flag is not looked at)
WantedThoughCancelled(event) == event.isReminderOn

\* line 269: the events check_calendar does not skip
Wanted(event) == event.isReminderOn /\ ~event.isCancelled

\* lines 278-280: the start string cut at its last "." and parsed to the
\* second: the fraction of a second is dropped.
ParseStart(start) == (start \div UnitsPerSecond) * UnitsPerSecond

\* (mutant of ReminderTime: the lead is left out)
ReminderTimeAtStart(start, reminder) == start

\* line 283: reminder_time = start - timedelta(minutes=reminder)
ReminderTime(start, reminder) == start - reminder * Minute

\* A tracker entry, the list [issued, reminder_time, start, subject, location]
\* of line 305.
Entry(issued, reminder_time, start, subject, location) ==
    [issued |-> issued, reminder_time |-> reminder_time, start |-> start,
     subject |-> subject, location |-> location]

----------------------------------------------------------------------------
(* check_calendar, lines 262-312 *)

\* (mutant of InThePast: the test of line 302 is missing)
InThePastNever(current_time, start) == FALSE

\* (mutant of InThePast: a start less than a minute ago still counts)
InThePastByAMinute(current_time, start) == current_time > start + Minute

\* line 302: an event that started before current_time is not stored
InThePast(current_time, start) == current_time > start

\* (mutant of AlreadyIssued: the test of line 292 is missing)
AlreadyIssuedNever(entry) == FALSE

\* line 292: the entry of a seen id is left alone when already issued
AlreadyIssued(entry) == entry.issued = TRUE

\* One pass of the loop body of lines 267-306 over one event.  st holds
\* self.reminders, the copy of line 265 and whether a KeyError was raised.
LoopBody(st, event, current_time) ==
    IF ~Wanted(event) THEN st
    ELSE
      LET start == ParseStart(event.start)
          reminder_time == ReminderTime(start, event.reminderMinutesBeforeStart)
          known == event.id \in DOMAIN st.reminders
          store(s) ==
              IF InThePast(current_time, start) THEN s
              ELSE [s EXCEPT !.reminders =
                       DictSet(s.reminders, event.id,
                               Entry(FALSE, reminder_time, start,
                                     event.subject, event.location))]
      IN IF known /\ event.id \notin DOMAIN st.copy
           THEN [st EXCEPT !.raised = TRUE]      \* reminders.pop: KeyError
         ELSE IF known
           THEN LET popped == [st EXCEPT !.copy = DictPop(st.copy, event.id)]
                IN IF AlreadyIssued(st.reminders[event.id]) THEN popped
                   ELSE store(popped)
         ELSE store(st)

\* The loop of line 267: the events in order, stopping at a raised error.
RECURSIVE Loop(_, _, _, _)
Loop(st, evs, i, current_time) ==
    IF i > Len(evs) \/ st.raised THEN st
    ELSE Loop(LoopBody(st, evs[i], current_time), evs, i + 1, current_time)

\* (mutant of DropUnseen: nothing is dropped)
DropUnseenNever(rem, copy, evs) == rem

\* lines 310-312: the ids left in the copy are dropped, unless the fetched
\* list is empty
DropUnseen(rem, copy, evs) ==
    IF evs # <<>> THEN [k \in DOMAIN rem \ DOMAIN copy |-> rem[k]] ELSE rem

\* (mutant of Reconcile: an id that had its reminder is not tracked anew)
ReconcileOnceFired(rem, evs, current_time) ==
    LET st == Loop([reminders |-> rem, copy |-> rem, raised |-> FALSE],
                   evs, 1, current_time)
        kept == IF st.raised THEN st.reminders
                ELSE DropUnseen(st.reminders, st.copy, evs)
    IN [reminders |-> [k \in DOMAIN kept \ (fired \ DOMAIN rem) |-> kept[k]],
        raised |-> st.raised]

\* lines 262-312: self.reminders after reconciling it with the fetched list
\* (and whether the call raised)
Reconcile(rem, evs, current_time) ==
    LET st == Loop([reminders |-> rem, copy |-> rem, raised |-> FALSE],
                   evs, 1, current_time)
    IN IF st.raised THEN [reminders |-> st.reminders, raised |-> TRUE]
       ELSE [reminders |-> DropUnseen(st.reminders, st.copy, evs),
             raised |-> FALSE]

----------------------------------------------------------------------------
(* issue_reminders, lines 314-362 *)

\* Python's timedelta of d clock units, normalised: days and seconds with
\* 0 <= seconds < 86400 (the microseconds are not used by the code).
TimedeltaDays(d) == d \div (MinutesPerDay * Minute)
TimedeltaSeconds(d) == (d % (MinutesPerDay * Minute)) \div UnitsPerSecond

\* lines 335-338: the minutes handed to calendar_popup.py
ReminderMins(start, current_time) ==
    LET reminder_mins == start - current_time
    IN TimedeltaDays(reminder_mins) * MinutesPerDay
         + (TimedeltaSeconds(reminder_mins) \div SecondsPerMinute) + 1

\* (mutants of Due: the issued flag is not looked at; the reminder is due
\* only after its time)
DueThoughIssued(entry, current_time) == current_time >= entry.reminder_time
DueStrictlyAfter(entry, current_time) ==
    ~entry.issued /\ current_time > entry.reminder_time

\* lines 326-330: the reminder of this entry is due and not yet issued
Due(entry, current_time) ==
    ~entry.issued /\ current_time >= entry.reminder_time

\* lines 351-356: the texts handed over in the environment
MeetingTitle(subject) ==
    IF subject = None \/ subject = "" THEN "Untitled Meeting" ELSE subject
MeetingLocation(location) ==
    IF location = None \/ location = "" THEN "No Location Set" ELSE location

\* lines 340-358: the command spawned for one entry (tagged with its id)
Command(event_id, entry, current_time) ==
    [id |-> event_id,
     minutes |-> ReminderMins(entry.start, current_time),
     title |-> MeetingTitle(entry.subject),
     location |-> MeetingLocation(entry.location)]

\* line 362: the entry once its reminder is issued
MarkIssued(entry) == [entry EXCEPT !.issued = TRUE]

\* the commands one call of issue_reminders spawns
Spawned(rem, current_time) ==
    {Command(k, rem[k], current_time) : k \in {j \in DOMAIN rem : Due(rem[j], current_time)}}

\* self.reminders after one call of issue_reminders
Issued(rem, current_time) ==
    [k \in DOMAIN rem |-> IF Due(rem[k], current_time) THEN MarkIssued(rem[k]) ELSE rem[k]]

----------------------------------------------------------------------------
(* The state after construction, lines 117-120, and main_loop's first_pass *)

EmptyDict == [k \in {} |-> None]

\* the history of a handler that made no mail call: no answer of either
\* call (an answer is kept as a list of one)
NoFetch == [n_msgs |-> <<>>, messages |-> <<>>]

NoMail == [check_mail_last |-> NoStamp, n_msgs_last |-> 0, quiet |-> FALSE]

InitChecker ==
    /\ now \in {0, 1}
    /\ running = TRUE
    /\ retries = 0
    /\ reminders = EmptyDict
    /\ check_mail_last = NoStamp
    /\ n_msgs_last = 0
    /\ first_pass = TRUE
    /\ op = "idle"
    /\ events = <<>>
    /\ pre = EmptyDict
    /\ popen = {}
    /\ fetched = NoFetch
    /\ pre_mail = NoMail
    /\ written = <<>>
    /\ dialog = FALSE
    /\ quit_delivered = FALSE

\* no message has been shown yet
NeverShown == [t \in Stamps |-> 0]

\* the answers of the remote calls are drawn freely: the inbox is not followed
InboxAtRest ==
    /\ mailbox = {}
    /\ backlog = {}
    /\ shown = NeverShown

\* main_loop before its first pass, lines 435-439
LoopAtRest ==
    /\ stage = "top"
    /\ calendar_count = CALENDAR_MULTIPLE
    /\ reminder_count = REMINDER_MULTIPLE
    /\ tick = 0
    /\ ran = <<>>
    /\ slept = 0

\* __init__ has started the first status icon, line 90
IconAtRest ==
    /\ statusicon = 1
    /\ icon_pc = "idle"
    /\ icon_retries = 0
    /\ command = None
    /\ attempts = <<>>
    /\ got = 0
    /\ respawned = 0

\* oauth2.py lines 58-61: no access token yet ('' is 0 here)
NoToken == 0
NoHandout == [token |-> NoToken, contacts |-> 0]

\* oauth2.py lines 197-206: the refresh token read from the cache at the
\* start; the later ones bear the number of the answer that carried them
CachedToken == 0
TokenAtRest ==
    /\ access_token = NoToken
    /\ refresh_token = CachedToken
    /\ expires_at = 0
    /\ real_expiry = 0
    /\ handed = NoHandout

\* no popup line is under way
LineAtRest ==
    /\ line_pc = "rest"
    /\ name = <<>>
    /\ title = <<>>
    /\ address = <<>>
    /\ line = <<>>
    /\ split_line = <<>>

\* no reminder has been launched yet
NothingFired == fired = {}

\* no calendar popup has been launched
NoPopup ==
    /\ popup_pc = "none"
    /\ minutes_total = 0
    /\ timer = 0
    /\ snoozed = FALSE
    /\ snooze_count = 0
    /\ snooze_interval = 0
    /\ screensaver = FALSE
    /\ visible = FALSE

SidesAtRest ==
    /\ NoPopup
    /\ NothingFired
    /\ LoopAtRest
    /\ IconAtRest
    /\ TokenAtRest
    /\ LineAtRest

Init ==
    /\ InitChecker
    /\ InboxAtRest
    /\ SidesAtRest

----------------------------------------------------------------------------
(* Actions *)

\* (mutant of Retry: the last retry is not granted)
RetryBelow(n) == n < MAX_RETRIES

\* lines 147, 176 and 257: after a failure that leaves self.retries at n the
\* handler returns; otherwise it calls cleanup
Retry(n) == n <= MAX_RETRIES

\* cleanup, lines 364-379: "quit" is sent to the status icon, the process exits
CleanupWrites == <<[cmd |-> "quit"], [cmd |-> "newline"]>>

\* the handler returns to main_loop: no dialog, no cleanup
StaysUp == UNCHANGED <<running, dialog, quit_delivered>>

\* (mutant of Cleanup: the process exits only when "quit" went through)
CleanupWhenDelivered(before) ==
    /\ written' = before \o CleanupWrites
    /\ quit_delivered' \in BOOLEAN
    /\ running' = ~quit_delivered'

\* cleanup, lines 364-379, called after the handler wrote before: "quit" and
\* an empty line are handed to statusicon_communicate, which may fail to
\* deliver them (lines 400-410, and the except of line 377); os._exit follows
Cleanup(before) ==
    /\ written' = before \o CleanupWrites
    /\ quit_delivered' \in BOOLEAN
    /\ running' = FALSE

\* (mutant of Fatal: cleanup without the dialog)
FatalSilent(before) ==
    /\ UNCHANGED dialog
    /\ Cleanup(before)

\* (mutant of Fatal: the dialog, and the checker carries on)
FatalCarriesOn(before) ==
    /\ dialog' = TRUE
    /\ written' = before
    /\ UNCHANGED <<running, quit_delivered>>

\* OWAError raised with the checker, lines 57-69: the dialog, then cleanup
Fatal(before) ==
    /\ dialog' = TRUE
    /\ Cleanup(before)

\* Time passes between two calls (the sleep of lines 482-483, the time the
\* calls themselves take).
Advance ==
    /\ running
    /\ op = "idle"
    /\ \E t \in Instants : t > now /\ now' = t
    /\ UNCHANGED <<running, retries, reminders, check_mail_last, n_msgs_last,
                   first_pass, op, events, pre, popen, fetched, pre_mail,
                   written, dialog, quit_delivered>>
    /\ UNCHANGED SideVars

\* The handlers that main_loop calls as check_mail (line 448)
MailOps == {"check_mail:ok", "check_mail:count_retry", "check_mail:messages_retry"}

\* The handler has returned and main_loop goes on (lines 449-450, 462, 473):
\* after check_mail the first pass is over.
Returned ==
    /\ running
    /\ op # "idle"
    /\ op' = "idle"
    /\ first_pass' = IF op \in MailOps THEN FALSE ELSE first_pass
    /\ events' = <<>>
    /\ pre' = EmptyDict
    /\ popen' = {}
    /\ fetched' = NoFetch
    /\ pre_mail' = NoMail
    /\ written' = <<>>
    /\ UNCHANGED <<now, running, retries, reminders, check_mail_last,
                   n_msgs_last, dialog, quit_delivered>>

Return ==
    /\ Returned
    /\ UNCHANGED SideVars

\* (mutant of CheckCalendarFailed: the entries are dropped with the failed
\* fetch)
CheckCalendarFailedForgets ==
    /\ running
    /\ op = "idle"
    /\ retries' = retries + 1
    /\ IF Retry(retries')
         THEN /\ op' = "check_calendar:retry"
              /\ written' = <<>>
              /\ StaysUp
         ELSE /\ op' = "check_calendar:fatal"
              /\ Cleanup(<<>>)
              /\ UNCHANGED dialog
    /\ events' = <<>>
    /\ pre' = reminders
    /\ popen' = {}
    /\ fetched' = NoFetch
    /\ pre_mail' = NoMail
    /\ reminders' = EmptyDict
    /\ UNCHANGED <<now, check_mail_last, n_msgs_last, first_pass>>
    /\ UNCHANGED SideVars

\* check_calendar when get_week_events raises o365Error, lines 252-260
CheckCalendarFailed ==
    /\ running
    /\ op = "idle"
    /\ retries' = retries + 1
    /\ IF Retry(retries')
         THEN /\ op' = "check_calendar:retry"
              /\ written' = <<>>
              /\ StaysUp
         ELSE /\ op' = "check_calendar:fatal"
              /\ Cleanup(<<>>)
              /\ UNCHANGED dialog
    /\ events' = <<>>
    /\ pre' = reminders
    /\ popen' = {}
    /\ fetched' = NoFetch
    /\ pre_mail' = NoMail
    /\ UNCHANGED <<now, reminders, check_mail_last, n_msgs_last, first_pass>>
    /\ UNCHANGED SideVars

\* check_calendar when get_week_events answers evs, lines 240-312; a
\* KeyError leaves through main_loop's handler (lines 463-466) and cleanup
EventsFetched(evs) ==
    /\ running
    /\ op = "idle"
    /\ LET r == Reconcile(reminders, evs, now)
       IN /\ events' = evs
          /\ reminders' = r.reminders
          /\ IF r.raised
               THEN /\ op' = "check_calendar:raised"
                    /\ Fatal(<<>>)
               ELSE /\ op' = "check_calendar:ok"
                    /\ written' = <<>>
                    /\ StaysUp
    /\ retries' = 0
    /\ pre' = reminders
    /\ popen' = {}
    /\ fetched' = NoFetch
    /\ pre_mail' = NoMail
    /\ UNCHANGED <<now, check_mail_last, n_msgs_last, first_pass>>
    /\ UNCHANGED SideVars

CheckCalendarFetched ==
    /\ op = "idle"
    /\ \E evs \in EventLists : EventsFetched(evs)

\* issue_reminders, lines 314-362
IssueReminders ==
    /\ running
    /\ op = "idle"
    /\ reminders' = Issued(reminders, now)
    /\ popen' = Spawned(reminders, now)
    /\ op' = "issue_reminders"
    /\ events' = <<>>
    /\ pre' = reminders
    /\ fetched' = NoFetch
    /\ pre_mail' = NoMail
    /\ written' = <<>>
    /\ UNCHANGED <<now, running, retries, check_mail_last, n_msgs_last,
                   first_pass, dialog, quit_delivered>>
    /\ UNCHANGED SideVars

\* check_calendar when get_access_token raises: the refresh was rejected
\* (oauth2.py lines 156-158).  The except of line 252 names o365Error only, so
\* the error leaves check_calendar and main_loop raises OWAError, lines 463-466
CheckCalendarTokenRejected ==
    /\ running
    /\ op = "idle"
    /\ op' = "check_calendar:token_rejected"
    /\ Fatal(<<>>)
    /\ events' = <<>>
    /\ pre' = reminders
    /\ popen' = {}
    /\ fetched' = NoFetch
    /\ pre_mail' = NoMail
    /\ UNCHANGED <<now, retries, reminders, check_mail_last, n_msgs_last,
                   first_pass>>
    /\ UNCHANGED SideVars

\* The calendar side of the checker: check_calendar and issue_reminders in
\* any order, at any clock reading.
NextCalendar ==
    \/ Advance
    \/ Return
    \/ CheckCalendarFailed
    \/ CheckCalendarFetched
    \/ IssueReminders

SpecCalendar == Init /\ [][NextCalendar]_vars

\* The same with a record of the ids launched: the handler has returned,
\* and what issue_reminders handed to Popen (lines 345-360) has been shown
TrackerReturn ==
    /\ Returned
    /\ fired' = fired \cup {c.id : c \in popen}
    /\ UNCHANGED NotPast

NextTracker ==
    \/ Advance
    \/ TrackerReturn
    \/ CheckCalendarFailed
    \/ CheckCalendarFetched
    \/ IssueReminders

SpecTracker == Init /\ [][NextTracker]_vars

----------------------------------------------------------------------------
(* check_mail, lines 124-233 *)

\* the lines written to the status icon
StatusNMsgs(n) == [cmd |-> "status:n_msgs", n |-> n]
StatusBlink(on) == [cmd |-> "status:blink", on |-> on]
PopupMore == [cmd |-> "popup", name |-> "Plus further message(s)..."]
EndOfCommands == [cmd |-> "end"]

\* lines 197-212: the popup of one message (with the time of arrival of the
\* message it shows)
Popup(message) ==
    [cmd |-> "popup",
     name |-> message.sender.name,
     subject |-> IF message.subject = None THEN "(No Subject)" ELSE message.subject,
     address |-> IF "address" \in DOMAIN message.sender
                   THEN message.sender.address ELSE "(No Address)",
     receivedDateTime |-> message.receivedDateTime]

\* (mutant of SeenBefore: the test of lines 187-190 is missing)
SeenBeforeNever(message, last) == FALSE

\* (mutant of SeenBefore: the messages older than check_mail_last are passed over)
SeenBeforeOlder(message, last) ==
    last # NoStamp /\ message.receivedDateTime < last

\* lines 187-190: a message that arrived at check_mail_last is passed over
SeenBefore(message, last) ==
    last # NoStamp /\ message.receivedDateTime = last

\* line 193: the loop ends at the message of this index (counted from 0)
AtLimit(imessage) == imessage = MAIL_POPUP_LIMIT

\* lines 185-212: what the loop writes from the i-th message on
RECURSIVE PopupLoop(_, _, _)
PopupLoop(messages, i, last) ==
    IF i > Len(messages) THEN <<>>
    ELSE IF SeenBefore(messages[i], last) THEN PopupLoop(messages, i + 1, last)
    ELSE IF AtLimit(i - 1) THEN <<>>
    ELSE <<StatusBlink(1), Popup(messages[i])>> \o PopupLoop(messages, i + 1, last)

\* (mutant of PastLimit: the closing popup needs two messages more)
PastLimitByTwo(messages) == Len(messages) > MAIL_POPUP_LIMIT + 1

\* line 216: the closing popup is written
PastLimit(messages) == Len(messages) >= MAIL_POPUP_LIMIT

\* (mutant of PopupWrites: quiet is not looked at)
PopupWritesLoud(messages, quiet, last) ==
    IF messages # <<>>
      THEN PopupLoop(messages, 1, last)
             \o (IF PastLimit(messages) THEN <<PopupMore>> ELSE <<>>)
      ELSE <<>>

\* lines 183-218: everything written for the fetched messages
PopupWrites(messages, quiet, last) ==
    IF ~quiet /\ messages # <<>>
      THEN PopupLoop(messages, 1, last)
             \o (IF PastLimit(messages) THEN <<PopupMore>> ELSE <<>>)
      ELSE <<>>

\* lines 223-226: the latest time of arrival in a list that is not empty
RECURSIVE MostRecentFrom(_, _, _)
MostRecentFrom(messages, i, most_recent) ==
    IF i > Len(messages) THEN most_recent
    ELSE MostRecentFrom(messages, i + 1,
                        IF messages[i].receivedDateTime > most_recent
                          THEN messages[i].receivedDateTime ELSE most_recent)

\* (mutant of MostRecent: the first message is taken for the latest)
MostRecentIsFirst(messages) == messages[1].receivedDateTime

MostRecent(messages) == MostRecentFrom(messages, 2, messages[1].receivedDateTime)

\* (mutant of Newer: the mark follows the fetched list)
NewerAlways(most_recent, last) == TRUE

\* lines 228-229: the high-water mark moves to most_recent
Newer(most_recent, last) == last = NoStamp \/ most_recent > last

\* lines 222-230: check_mail_last after the fetched messages
NextMailLast(messages, last) ==
    IF messages # <<>> /\ Newer(MostRecent(messages), last)
      THEN MostRecent(messages) ELSE last

\* (mutant of CountWrites: the LED is switched off unless the count rose)
CountWritesNotRisen(n_msgs, last_n) ==
    <<StatusNMsgs(n_msgs)>>
      \o (IF n_msgs <= last_n THEN <<StatusBlink(0)>> ELSE <<>>)

\* (mutant of CountWrites: the blinker is switched on with the count)
CountWritesBlinkOn(n_msgs, last_n) == <<StatusNMsgs(n_msgs), StatusBlink(1)>>

\* lines 153-157: what is written once the unread count is known
CountWrites(n_msgs, last_n) ==
    <<StatusNMsgs(n_msgs)>>
      \o (IF n_msgs < last_n THEN <<StatusBlink(0)>> ELSE <<>>)

\* (mutant of SavedCount: a count of 0 is not kept)
SavedCountIfMail(n_msgs, last_n) == IF n_msgs > 0 THEN n_msgs ELSE last_n

\* line 160: self.n_msgs_last after the unread count was fetched
SavedCount(n_msgs, last_n) == n_msgs

\* what every check_mail action leaves of the calendar history
MailFrame ==
    /\ events' = <<>>
    /\ pre' = reminders
    /\ popen' = {}
    /\ pre_mail' = [check_mail_last |-> check_mail_last,
                    n_msgs_last |-> n_msgs_last, quiet |-> first_pass]
    /\ UNCHANGED <<now, reminders, first_pass>>

\* check_mail when get_num_messages raises o365Error, lines 136-150
CheckMailCountFailed ==
    /\ running
    /\ op = "idle"
    /\ retries' = retries + 1
    /\ IF Retry(retries')
         THEN /\ op' = "check_mail:count_retry"
              /\ written' = <<>>
              /\ StaysUp
         ELSE /\ op' = "check_mail:count_fatal"
              /\ Cleanup(<<>>)
              /\ UNCHANGED dialog
    /\ fetched' = NoFetch
    /\ MailFrame
    /\ UNCHANGED <<check_mail_last, n_msgs_last>>
    /\ UNCHANGED SideVars

\* check_mail when no message is unread: get_new_messages is not called,
\* lines 136-164 and 232-233
CheckMailNoneUnread ==
    /\ running
    /\ op = "idle"
    /\ retries' = 0
    /\ n_msgs_last' = SavedCount(0, n_msgs_last)
    /\ written' = CountWrites(0, n_msgs_last) \o <<EndOfCommands>>
    /\ op' = "check_mail:ok"
    /\ fetched' = [n_msgs |-> <<0>>, messages |-> <<>>]
    /\ MailFrame
    /\ StaysUp
    /\ UNCHANGED <<check_mail_last>>
    /\ UNCHANGED SideVars

\* check_mail when n_msgs messages are unread and get_new_messages raises
\* o365Error, lines 136-180
MessagesFailed(n_msgs) ==
    /\ running
    /\ op = "idle"
    /\ n_msgs_last' = SavedCount(n_msgs, n_msgs_last)
    /\ fetched' = [n_msgs |-> <<n_msgs>>, messages |-> <<>>]
    /\ retries' = 0 + 1      \* line 141 has reset it, line 173 counts
    /\ IF Retry(retries')
         THEN /\ op' = "check_mail:messages_retry"
              /\ written' = CountWrites(n_msgs, n_msgs_last)
              /\ StaysUp
         ELSE /\ op' = "check_mail:messages_fatal"
              /\ Cleanup(CountWrites(n_msgs, n_msgs_last))
              /\ UNCHANGED dialog
    /\ MailFrame
    /\ UNCHANGED <<check_mail_last>>

CheckMailMessagesFailed ==
    /\ op = "idle"
    /\ \E n_msgs \in 1..MaxUnread : MessagesFailed(n_msgs)
    /\ UNCHANGED SideVars

\* check_mail when n_msgs messages are unread and get_new_messages answers
\* messages, lines 124-233
MessagesFetched(n_msgs, messages) ==
    /\ running
    /\ op = "idle"
    /\ n_msgs_last' = SavedCount(n_msgs, n_msgs_last)
    /\ fetched' = [n_msgs |-> <<n_msgs>>, messages |-> <<messages>>]
    /\ written' = CountWrites(n_msgs, n_msgs_last)
                    \o PopupWrites(messages, first_pass, check_mail_last)
                    \o <<EndOfCommands>>
    /\ check_mail_last' = NextMailLast(messages, check_mail_last)
    /\ retries' = 0
    /\ op' = "check_mail:ok"
    /\ MailFrame
    /\ StaysUp

CheckMailFetched ==
    /\ op = "idle"
    /\ \E n_msgs \in 1..MaxUnread, messages \in MessageLists :
         MessagesFetched(n_msgs, messages)
    /\ UNCHANGED SideVars

\* check_mail when the get_access_token of line 138 raises: the except of line
\* 142 names o365Error only, so the error leaves check_mail before anything
\* is written and main_loop raises OWAError, lines 451-454
CheckMailTokenRejected ==
    /\ running
    /\ op = "idle"
    /\ op' = "check_mail:token_rejected"
    /\ Fatal(<<>>)
    /\ fetched' = NoFetch
    /\ MailFrame
    /\ UNCHANGED <<retries, check_mail_last, n_msgs_last>>
    /\ UNCHANGED SideVars

\* check_mail when the count was answered and the get_access_token of line
\* 166 raises (the token has run out in between): lines 141-160 have run
MessagesTokenRejected ==
    /\ running
    /\ op = "idle"
    /\ \E n_msgs \in 1..MaxUnread :
         /\ n_msgs_last' = SavedCount(n_msgs, n_msgs_last)
         /\ fetched' = [n_msgs |-> <<n_msgs>>, messages |-> <<>>]
         /\ Fatal(CountWrites(n_msgs, n_msgs_last))
    /\ retries' = 0
    /\ op' = "check_mail:token_rejected"
    /\ MailFrame
    /\ UNCHANGED <<check_mail_last>>
    /\ UNCHANGED SideVars

\* The mail side of the checker: one check_mail after another, as main_loop
\* calls it (quiet on the first pass only, lines 448-450).
NextMail ==
    \/ Return
    \/ CheckMailCountFailed
    \/ CheckMailNoneUnread
    \/ CheckMailMessagesFailed
    \/ CheckMailFetched

SpecMail == Init /\ [][NextMail]_vars

----------------------------------------------------------------------------
(* The inbox on the server: what get_num_messages and get_new_messages     *)
(* answer when the unread messages are those of mailbox                    *)

\* the message that arrived at t
MessageAt(t) == CHOOSE m \in Inbox : m.receivedDateTime = t

\* the orders in which the messages that arrived at the times of S can be
\* listed (each folder's answer is sorted, the answers are concatenated)
Orders(S) ==
    {f \in [1..Cardinality(S) -> S] : \A i, j \in DOMAIN f : i # j => f[i] # f[j]}

\* o365_api lines 120-132: the unread messages received after last_seen, all
\* of them when last_seen is None
Later(box, last_seen) == {t \in box : last_seen = NoStamp \/ t > last_seen}

\* What get_new_messages can answer: unread messages received after
\* last_seen, the most recent of them among them ($orderby receivedDateTime
\* DESC, of which the server keeps the first 10), and possibly the message
\* received at last_seen itself (the one lines 187-190 of owa_checker.py
\* expect to see again).
Answers(box, last_seen) ==
    LET later == Later(box, last_seen)
        kept == {S \in SUBSET later : \A t \in later : \E u \in S : u >= t}
        again == SUBSET (box \cap {last_seen})
    IN  UNION {{[i \in DOMAIN f |-> MessageAt(f[i])] : f \in Orders(S \cup E)} :
                 S \in kept, E \in again}

\* the command is the popup of the message that arrived at t
Shows(c, t) ==
    c.cmd = "popup" /\ "receivedDateTime" \in DOMAIN c /\ c.receivedDateTime = t

\* shown, after a poll that wrote commands
Counted(commands) ==
    [t \in Stamps |->
       shown[t] + IF \E i \in DOMAIN commands : Shows(commands[i], t) THEN 1 ELSE 0]

\* the checker starts with some mail unread
InitInbox ==
    /\ InitChecker
    /\ mailbox \in SUBSET Stamps
    /\ backlog = mailbox
    /\ shown = NeverShown
    /\ SidesAtRest

\* A message arrives, later than those already there, and stays unread.
Arrive ==
    /\ running
    /\ op = "idle"
    /\ \E t \in Stamps :
         /\ \A u \in mailbox : t > u
         /\ mailbox' = mailbox \cup {t}
    /\ UNCHANGED <<now, running, retries, reminders, check_mail_last,
                   n_msgs_last, first_pass, op, events, pre, popen, fetched,
                   pre_mail, written, dialog, quit_delivered, backlog, shown>>
    /\ UNCHANGED NotInbox

\* check_mail when the inbox has no unread message
InboxNoneUnread ==
    /\ mailbox = {}
    /\ CheckMailNoneUnread

\* check_mail when get_new_messages raises o365Error
InboxMessagesFailed ==
    /\ op = "idle"
    /\ mailbox # {}
    /\ MessagesFailed(Cardinality(mailbox))
    /\ UNCHANGED SideVars

\* check_mail when both remote calls answer from the inbox
InboxFetched ==
    /\ op = "idle"
    /\ mailbox # {}
    /\ \E messages \in Answers(mailbox, check_mail_last) :
         MessagesFetched(Cardinality(mailbox), messages)
    /\ shown' = Counted(written')
    /\ UNCHANGED <<mailbox, backlog>>
    /\ UNCHANGED NotInbox

\* main_loop polling an inbox in which mail arrives
NextInbox ==
    \/ Arrive
    \/ Return
    \/ CheckMailCountFailed
    \/ InboxNoneUnread
    \/ InboxMessagesFailed
    \/ InboxFetched

SpecInbox == InitInbox /\ [][NextInbox]_vars

----------------------------------------------------------------------------
(* The remote calls of main_loop, of the mail and of the calendar, in any  *)
(* order: they share self.retries                                          *)

\* the answers are short lists: self.retries does not depend on them
RemoteMailFetched ==
    /\ op = "idle"
    /\ \E n_msgs \in 1..MaxUnread :
         \E messages \in UNION {[1..n -> Inbox] : n \in 0..MaxAnswered} :
           MessagesFetched(n_msgs, messages)
    /\ UNCHANGED SideVars

RemoteWeekFetched ==
    /\ op = "idle"
    /\ \E evs \in UNION {[1..n -> Events] : n \in 0..MaxAnswered} :
         EventsFetched(evs)

NextRemote ==
    \/ Return
    \/ CheckMailCountFailed
    \/ CheckMailNoneUnread
    \/ CheckMailMessagesFailed
    \/ RemoteMailFetched
    \/ CheckCalendarFailed
    \/ RemoteWeekFetched

SpecRemote == Init /\ [][NextRemote]_vars

----------------------------------------------------------------------------
(* get_new_messages is down: it raises o365Error whenever it is called,    *)
(* while get_num_messages and get_week_events answer.  main_loop calls     *)
(* check_mail in every pass, so the call is made again and again as long   *)
(* as mail is unread.                                                      *)

NextMessagesDown ==
    \/ Return
    \/ CheckMailNoneUnread
    \/ CheckMailMessagesFailed
    \/ RemoteWeekFetched

SpecMessagesDown ==
    /\ Init
    /\ [][NextMessagesDown]_vars
    /\ WF_vars(NextMessagesDown)
    /\ SF_vars(CheckMailMessagesFailed)

----------------------------------------------------------------------------
(* main_loop, lines 413-483: the passes of the loop, each of them          *)
(* check_mail, check_calendar when its count is up, issue_reminders, and   *)
(* the sleep to the next multiple of CHECK_INTERVAL.  Time is in units of  *)
(* 1/UnitsPerSecond seconds, as time.time() is a float.                    *)

\* the loop is followed for a period of the calendar and this many passes more
MaxMorePasses == 1
MaxTicks == CALENDAR_MULTIPLE + MaxMorePasses

\* CHECK_INTERVAL in clock units
Interval == CHECK_INTERVAL * UnitsPerSecond

\* what the work of a pass may take: no time, a unit, or more than an interval
WorkTimes == {0, 1, Interval + 1}

\* (mutant of SleepSecs: a sleep of fixed length)
SleepSecsFixed(t) == Interval

\* line 482: sleep_secs when time.time() reads t
SleepSecs(t) == Interval - (t % Interval)

\* line 470: the test of reminder_count
AfterCalendar(rc) == IF rc >= REMINDER_MULTIPLE THEN "reminders" ELSE "sleep"

\* line 459: the test of calendar_count
AfterMail(cc, rc) ==
    IF cc >= CALENDAR_MULTIPLE THEN "calendar" ELSE AfterCalendar(rc)

\* (mutant of CalendarCountAfter: a fetch that failed is made again in the
\* next pass)
CalendarCountUnlessFailed(o, cc) == IF o = "check_calendar:retry" THEN cc ELSE 0

\* line 462: calendar_count after check_calendar has returned as o
CalendarCountAfter(o, cc) == 0

\* the handler of main_loop that ends as o
Handler(o) ==
    IF o \in MailOps THEN "check_mail"
    ELSE IF o = "issue_reminders" THEN "issue_reminders"
    ELSE "check_calendar"

\* lines 441-443: a pass begins
LoopTop ==
    /\ running
    /\ op = "idle"
    /\ stage = "top"
    /\ tick < MaxTicks
    /\ tick' = tick + 1
    /\ calendar_count' = calendar_count + 1
    /\ reminder_count' = reminder_count + 1
    /\ ran' = <<>>
    /\ slept' = 0
    /\ stage' = "mail"
    /\ UNCHANGED <<now, CheckerVars>>
    /\ UNCHANGED NotLoop

\* line 448: check_mail, whatever the remote calls do (the loop does not
\* depend on the messages: the polls that answer find nothing unread)
LoopCheckMail ==
    /\ stage = "mail"
    /\ \/ CheckMailCountFailed
       \/ CheckMailNoneUnread
       \/ CheckMailMessagesFailed
       \/ CheckMailTokenRejected
       \/ MessagesTokenRejected

\* line 461: check_calendar
LoopCheckCalendar ==
    /\ stage = "calendar"
    /\ \/ CheckCalendarFailed
       \/ RemoteWeekFetched
       \/ CheckCalendarTokenRejected

\* line 472: issue_reminders
LoopIssueReminders ==
    /\ stage = "reminders"
    /\ IssueReminders

\* the handler has returned: lines 449-450 and 459 after check_mail, 462 and
\* 470 after check_calendar, 473 after issue_reminders
LoopReturn ==
    /\ Returned
    /\ ran' = Append(ran, Handler(op))
    /\ IF stage = "mail"
         THEN /\ stage' = AfterMail(calendar_count, reminder_count)
              /\ UNCHANGED <<calendar_count, reminder_count>>
         ELSE IF stage = "calendar"
           THEN /\ calendar_count' = CalendarCountAfter(op, calendar_count)
                /\ stage' = AfterCalendar(reminder_count)
                /\ UNCHANGED reminder_count
           ELSE /\ reminder_count' = 0
                /\ stage' = "sleep"
                /\ UNCHANGED calendar_count
    /\ UNCHANGED <<tick, slept>>
    /\ UNCHANGED NotLoop

\* lines 479-483: the work of the pass has taken d, the clock is read and
\* the loop sleeps
LoopSleep ==
    /\ running
    /\ op = "idle"
    /\ stage = "sleep"
    /\ \E d \in WorkTimes :
         /\ slept' = SleepSecs(now + d)
         /\ now' = now + d + slept'
    /\ stage' = "top"
    /\ UNCHANGED <<calendar_count, reminder_count, tick, ran>>
    /\ UNCHANGED CheckerVars
    /\ UNCHANGED NotLoop

\* lines 428-433: one of the trapped signals arrives and cleanup is its handler
Signal ==
    /\ running
    /\ op' = "signal"
    /\ Cleanup(written)
    /\ UNCHANGED <<now, retries, reminders, check_mail_last, n_msgs_last,
                   first_pass, events, pre, popen, fetched, pre_mail, dialog>>
    /\ UNCHANGED SideVars

NextLoop ==
    \/ LoopTop
    \/ LoopCheckMail
    \/ LoopCheckCalendar
    \/ LoopIssueReminders
    \/ LoopReturn
    \/ LoopSleep
    \/ Signal

SpecLoop == Init /\ [][NextLoop]_vars

----------------------------------------------------------------------------
(* statusicon_communicate, lines 392-410: a command is written to the      *)
(* stdin of the status icon; each write ends well, or with the IOError     *)
(* 'Broken pipe', or with another IOError.                                 *)

\* lines 52-54
MAX_STATUS_ICON_RETRIES == 2

\* the status icon is started at most this many times
MaxIcons == 4

\* the commands of check_mail and cleanup, by their first word
Commands == {"status", "popup", "quit"}

\* (mutant of TryAgain: one attempt more)
TryAgainOnceMore(r) == r <= MAX_STATUS_ICON_RETRIES

\* line 400: the test of the while loop
TryAgain(r) == r < MAX_STATUS_ICON_RETRIES

\* lines 399-400: the handler calls statusicon_communicate(c)
Communicate ==
    /\ icon_pc = "idle"
    /\ statusicon + MAX_STATUS_ICON_RETRIES <= MaxIcons
    /\ \E c \in Commands : command' = c
    /\ icon_retries' = 0
    /\ attempts' = <<>>
    /\ got' = 0
    /\ respawned' = 0
    /\ icon_pc' = IF TryAgain(icon_retries') THEN "write" ELSE "return"
    /\ UNCHANGED statusicon
    /\ UNCHANGED NotIcon

\* lines 402-403: the write goes through, break
WriteDone ==
    /\ icon_pc = "write"
    /\ attempts' = Append(attempts, "ok")
    /\ got' = got + 1
    /\ icon_pc' = "return"
    /\ UNCHANGED <<statusicon, icon_retries, command, respawned>>
    /\ UNCHANGED NotIcon

\* lines 404-410: IOError 'Broken pipe', the status icon is started again
WriteBrokenPipe ==
    /\ icon_pc = "write"
    /\ attempts' = Append(attempts, "Broken pipe")
    /\ statusicon' = statusicon + 1
    /\ respawned' = respawned + 1
    /\ icon_retries' = icon_retries + 1
    /\ icon_pc' = IF TryAgain(icon_retries') THEN "write" ELSE "return"
    /\ UNCHANGED <<command, got>>
    /\ UNCHANGED NotIcon

\* lines 404-405 and 410: an IOError that is not 'Broken pipe'
WriteIOError ==
    /\ icon_pc = "write"
    /\ attempts' = Append(attempts, "IOError")
    /\ icon_retries' = icon_retries + 1
    /\ icon_pc' = IF TryAgain(icon_retries') THEN "write" ELSE "return"
    /\ UNCHANGED <<statusicon, command, got, respawned>>
    /\ UNCHANGED NotIcon

\* the end of the function is reached: it returns None to its caller
CommunicateReturns ==
    /\ icon_pc = "return"
    /\ icon_pc' = "idle"
    /\ icon_retries' = 0
    /\ command' = None
    /\ attempts' = <<>>
    /\ got' = 0
    /\ respawned' = 0
    /\ UNCHANGED statusicon
    /\ UNCHANGED NotIcon

NextStatusIcon ==
    \/ Communicate
    \/ WriteDone
    \/ WriteBrokenPipe
    \/ WriteIOError
    \/ CommunicateReturns

SpecStatusIcon == Init /\ [][NextStatusIcon]_vars

----------------------------------------------------------------------------
(* oauth2.get_access_token, lines 161-177, and the refresh it asks for,    *)
(* lines 126-158.  The clock runs in units of 1/UnitsPerSecond seconds and *)
(* int(time.time()) drops the part of a second.                            *)

\* oauth2.py lines 70-72, in seconds
TOKEN_EXPIRY_THRESHOLD == 300

\* the endpoint grants up to this many seconds more than the threshold
MaxSpare == 2

\* tokens['expires_in'] of an answer, in seconds
ExpiresIn == (TOKEN_EXPIRY_THRESHOLD - 1)..(TOKEN_EXPIRY_THRESHOLD + MaxSpare)

\* the clock is followed up to here
MaxClock == (MaxSpare + 2) * UnitsPerSecond

\* the access tokens are told apart by a number
MaxTokens == 3
NextToken(tok) == (tok % MaxTokens) + 1

\* int(time.time()) when the clock reads t
Seconds(t) == t \div UnitsPerSecond

\* (mutant of ExpiresAt: nothing is taken off)
ExpiresAtTheWire(n, expires_in) == n + expires_in

\* lines 151-152: expiration, n being int(time.time())
ExpiresAt(n, expires_in) == n + expires_in - TOKEN_EXPIRY_THRESHOLD

\* line 171, n being int(time.time())
NeedsRefresh(tok, expiration, n) == tok = NoToken \/ n > expiration

\* time passes
TokenTick ==
    /\ now < MaxClock
    /\ now' = now + 1
    /\ handed' = NoHandout
    /\ UNCHANGED <<access_token, refresh_token, expires_at, real_expiry>>
    /\ UNCHANGED NotToken

\* lines 168-171 and 175-177: the token of the session is returned
GetAccessTokenCached ==
    /\ ~NeedsRefresh(access_token, expires_at, Seconds(now))
    /\ handed' = [token |-> access_token, contacts |-> 0]
    /\ UNCHANGED <<now, access_token, refresh_token, expires_at, real_expiry>>
    /\ UNCHANGED NotToken

\* (mutant of GetAccessTokenRefreshed: the expiry of the session is kept)
GetAccessTokenKeepsExpiry ==
    /\ NeedsRefresh(access_token, expires_at, Seconds(now))
    /\ \E expires_in \in ExpiresIn :
         real_expiry' = now + expires_in * UnitsPerSecond
    /\ access_token' = NextToken(access_token)
    /\ refresh_token' = access_token'
    /\ handed' = [token |-> access_token', contacts |-> 1]
    /\ UNCHANGED <<now, expires_at>>
    /\ UNCHANGED NotToken

\* lines 168-174 with 143-155: the endpoint answers 200 with a new token
\* that lasts expires_in seconds from now
GetAccessTokenRefreshed ==
    /\ NeedsRefresh(access_token, expires_at, Seconds(now))
    /\ \E expires_in \in ExpiresIn :
         /\ expires_at' = ExpiresAt(Seconds(now), expires_in)
         /\ real_expiry' = now + expires_in * UnitsPerSecond
    /\ access_token' = NextToken(access_token)
    /\ refresh_token' = access_token'
    /\ handed' = [token |-> access_token', contacts |-> 1]
    /\ UNCHANGED now
    /\ UNCHANGED NotToken

\* lines 168-173 with 143-145 and 156-158: the endpoint does not answer
\* 200, ValueError is raised and nothing is returned
GetAccessTokenRejected ==
    /\ NeedsRefresh(access_token, expires_at, Seconds(now))
    /\ handed' = [token |-> NoToken, contacts |-> 1]
    /\ UNCHANGED <<now, access_token, refresh_token, expires_at, real_expiry>>
    /\ UNCHANGED NotToken

NextSession ==
    \/ TokenTick
    \/ GetAccessTokenCached
    \/ GetAccessTokenRefreshed
    \/ GetAccessTokenRejected

SpecToken == Init /\ [][NextSession]_vars

----------------------------------------------------------------------------
(* The popup line: check_mail formats it (lines 207-212), receive_stdin of *)
(* the status icon splits it (status_icon.py lines 293-313) and send_popup *)
(* puts the colons back (lines 647-660).  A string is the sequence of its  *)
(* characters; the word popup counts as one character.                     *)

\* the characters of the fields: a letter, the colon, the backslash
Chars == {"a", ":", "\\"}

\* the fields are up to this long
MaxLen == 2
Strings == UNION {[1..n -> Chars] : n \in 0..MaxLen}

RECURSIVE Escape(_)
\* s.replace(":", "\\:")
Escape(s) ==
    IF s = <<>> THEN <<>>
    ELSE (IF Head(s) = ":" THEN <<"\\", ":">> ELSE <<Head(s)>>) \o Escape(Tail(s))

\* lines 208-212: "popup:{0:s}:{1:s}:{2:s}" with the name and the subject
\* escaped and the address as it is (the "\n" ends the line and is
\* dropped by readline().replace, status_icon.py line 293)
PopupLine(n, t, a) ==
    <<"popup", ":">> \o Escape(n) \o <<":">> \o Escape(t) \o <<":">> \o a

RECURSIVE SplitFrom(_, _, _, _)
\* re.split(r'(?<!\\):', l) from place i on, with field begun and fields done
SplitFrom(l, i, field, fields) ==
    IF i > Len(l) THEN Append(fields, field)
    ELSE IF l[i] = ":" /\ (i = 1 \/ l[i - 1] # "\\")
      THEN SplitFrom(l, i + 1, <<>>, Append(fields, field))
      ELSE SplitFrom(l, i + 1, Append(field, l[i]), fields)

\* status_icon.py line 296
Split(l) == SplitFrom(l, 1, <<>>, <<>>)

RECURSIVE Unescape(_)
\* s.replace("\\:", ":"), status_icon.py lines 649 and 658
Unescape(s) ==
    IF s = <<>> THEN <<>>
    ELSE IF Len(s) >= 2 /\ s[1] = "\\" /\ s[2] = ":"
      THEN <<":">> \o Unescape(SubSeq(s, 3, Len(s)))
      ELSE <<Head(s)>> \o Unescape(Tail(s))

\* a message with any name, subject and address is about to be shown
InitPopupLine ==
    /\ InitChecker
    /\ InboxAtRest
    /\ LoopAtRest
    /\ IconAtRest
    /\ TokenAtRest
    /\ NothingFired
    /\ NoPopup
    /\ line_pc = "message"
    /\ name \in Strings
    /\ title \in Strings
    /\ address \in Strings
    /\ line = <<>>
    /\ split_line = <<>>

\* owa_checker.py lines 207-212: the line is written to the status icon
WritePopup ==
    /\ line_pc = "message"
    /\ line' = PopupLine(name, title, address)
    /\ line_pc' = "written"
    /\ UNCHANGED <<name, title, address, split_line>>
    /\ UNCHANGED NotLine

\* status_icon.py lines 293-296: the line is read and split
ReceiveStdin ==
    /\ line_pc = "written"
    /\ split_line' = Split(line)
    /\ line_pc' = "split"
    /\ UNCHANGED <<name, title, address, line>>
    /\ UNCHANGED NotLine

NextPopupLine ==
    \/ WritePopup
    \/ ReceiveStdin

SpecPopupLine == InitPopupLine /\ [][NextPopupLine]_vars

----------------------------------------------------------------------------
(* calendar_popup.py: the popup issue_reminders launches (owa_checker.py   *)
(* lines 341-360) with the minutes to the start of the meeting.  A tick is *)
(* one call of decrement_timer, made by gobject every COUNTDOWN_TICK_SECS  *)
(* seconds; the user can press the two buttons while the window is shown.  *)

\* calendar_popup.py lines 43-45
GIVE_UP_TICKS == 60

\* calendar_popup.py lines 37-38
SNOOZE_DROPDOWN_CHOICES == {5, 10, 15, 30, 60, 120, 240, 360}

\* the popup is launched up to this many minutes before the start ...
MaxAhead == 6

\* ... and up to this many minutes after the start and the GIVE_UP_TICKS
MaxLate == 1

\* int(sys.argv[1]), line 328
MinutesTotals == (0 - (GIVE_UP_TICKS + MaxLate))..MaxAhead

\* the countdown is followed down to here
TimerFloor == 0 - (GIVE_UP_TICKS + MaxLate + 1)

\* lines 61-181: CalendarPopup.__init__ up to gtk.main(); active is what
\* screensaver_isactive answers
CalendarPopupInit ==
    /\ popup_pc = "none"
    /\ \E m \in MinutesTotals, active \in BOOLEAN :
         /\ minutes_total' = m
         /\ screensaver' = active
         /\ visible' = ~active
         /\ timer' = m
    /\ snoozed' = FALSE
    /\ popup_pc' = "main"
    /\ UNCHANGED <<snooze_count, snooze_interval>>
    /\ UNCHANGED NotPopup

\* lines 263-277: the meeting is still to come
TimerAhead ==
    IF snoozed
    THEN IF snooze_count >= snooze_interval
         THEN /\ visible' = (visible \/ ~screensaver)
              /\ UNCHANGED snooze_count
         ELSE /\ snooze_count' = snooze_count + 1
              /\ UNCHANGED visible
    ELSE UNCHANGED <<snooze_count, visible>>

\* lines 284-285 and 292-295: a snoozed popup is shown again
ShownAgain == visible \/ (snoozed /\ ~screensaver)

\* line 297
GivesUp(t) == t = 0 - GIVE_UP_TICKS

\* lines 252-304: decrement_timer
DecrementTimer ==
    /\ popup_pc = "main"
    /\ timer > TimerFloor
    /\ timer' = timer - 1
    /\ IF timer' > 0
       THEN TimerAhead /\ UNCHANGED popup_pc
       ELSE /\ UNCHANGED snooze_count
            /\ IF timer' < 0 /\ GivesUp(timer')
               THEN popup_pc' = "given_up" /\ visible' = FALSE
               ELSE popup_pc' = popup_pc /\ visible' = ShownAgain
    /\ UNCHANGED <<minutes_total, snoozed, snooze_interval, screensaver>>
    /\ UNCHANGED NotPopup

\* lines 213-219: the user clicks the dismiss button
Dismiss ==
    /\ popup_pc = "main"
    /\ visible
    /\ popup_pc' = "dismissed"
    /\ visible' = FALSE
    /\ UNCHANGED <<minutes_total, timer, snoozed, snooze_count,
                   snooze_interval, screensaver>>
    /\ UNCHANGED NotPopup

\* lines 221-232: the user clicks the snooze button
Snooze ==
    /\ popup_pc = "main"
    /\ visible
    /\ visible' = FALSE
    /\ \E choice \in SNOOZE_DROPDOWN_CHOICES : snooze_interval' = choice
    /\ snooze_count' = 1
    /\ snoozed' = TRUE
    /\ UNCHANGED <<popup_pc, minutes_total, timer, screensaver>>
    /\ UNCHANGED NotPopup

\* lines 234-250: screensaver_check; active is what screensaver_isactive
\* answers
ScreensaverCheck ==
    /\ popup_pc = "main"
    /\ \E active \in BOOLEAN :
         /\ screensaver' = active
         /\ visible' = IF /\ ~active
                          /\ screensaver
                          /\ snoozed
                          /\ snooze_count >= snooze_interval
                       THEN TRUE
                       ELSE visible
    /\ UNCHANGED <<popup_pc, minutes_total, timer, snoozed, snooze_count,
                   snooze_interval>>
    /\ UNCHANGED NotPopup

NextPopup ==
    \/ CalendarPopupInit
    \/ DecrementTimer
    \/ Dismiss
    \/ Snooze
    \/ ScreensaverCheck

SpecPopup == Init /\ [][NextPopup]_vars

----------------------------------------------------------------------------
(* Properties of the reminder tracker, checked under SpecCalendar.  In a   *)
(* state whose op is a handler, pre is self.reminders as the handler found *)
(* it, events the fetched list, now the current_time the handler read.     *)

\* check_calendar got an answer (it returned, or it raised midway)
Fetched == op \in {"check_calendar:ok", "check_calendar:raised"}

\* the handler left self.reminders[id] as it found it
Untouched(id) ==
    id \in DOMAIN pre /\ id \in DOMAIN reminders /\ reminders[id] = pre[id]

\* the ids of the spawned commands
Launched == {c.id : c \in popen}

\* the places of the fetched list that name id
Places(id) == {i \in DOMAIN events : events[i].id = id}

\* the event is one check_calendar keeps: reminder on, not cancelled
Live(event) == event.isReminderOn /\ ~event.isCancelled

\* the entry the code is to build from a fetched event
EntryOf(event) ==
    [issued |-> FALSE,
     reminder_time |-> event.start
         - event.reminderMinutesBeforeStart * SecondsPerMinute * UnitsPerSecond,
     start |-> event.start,
     subject |-> event.subject,
     location |-> event.location]

\* C1: an issued entry that stays in the tracker stays issued, and no
\* handler spawns a reminder for an entry it found issued; a reminder is
\* spawned only for an entry found unissued, which is issued from then on.
\* So an id is launched at most once while it stays tracked, and a second
\* issue_reminders launches nothing for the issued entries.
C1_IssuedOnce ==
    op # "idle" =>
      /\ \A id \in DOMAIN pre :
           pre[id].issued =>
             /\ id \in DOMAIN reminders => reminders[id].issued
             /\ id \notin Launched
      /\ \A id \in Launched :
           /\ id \in DOMAIN pre /\ ~pre[id].issued
           /\ id \in DOMAIN reminders /\ reminders[id].issued

\* issue_reminders ran over an entry that was issued before and is due: it
\* launched nothing.
C1_Witness ==
    /\ op = "issue_reminders"
    /\ \E id \in DOMAIN pre : pre[id].issued /\ now >= pre[id].reminder_time
    /\ popen = {}

\* C2 (as claimed): after a check_calendar whose fetch succeeded, no id that
\* was tracked before and is absent from the fetched list is still tracked,
\* whatever the list, the empty list included.
C2_AbsentDropped ==
    op = "check_calendar:ok" =>
      \A id \in DOMAIN pre : Places(id) = {} => id \notin DOMAIN reminders

\* C3: a fetched list that is not empty, all of whose events have the
\* reminder on, are not cancelled, start at current_time or later and bear
\* distinct ids, leaves exactly its ids tracked, whatever was tracked.
C3_Premise ==
    /\ events # <<>>
    /\ \A i \in DOMAIN events : Live(events[i]) /\ events[i].start >= now
    /\ \A i, j \in DOMAIN events : events[i].id = events[j].id => i = j

C4_CancelledDropped ==
    op = "check_calendar:ok" =>
      \A id \in DOMAIN pre :
        (~pre[id].issued /\ \E i \in Places(id) : ~Live(events[i]))
          => id \notin DOMAIN reminders

\* C4 (amended): a tracked, unissued id that is in the fetched list
\* cancelled or with the reminder off, and nowhere in it with reminder on
\* and not cancelled, is removed by check_calendar; reminders are spawned
\* only for tracked ids, and only a fetch brings an id into the tracker.
C4_CancelledOnlyDropped ==
    /\ op = "check_calendar:ok" =>
         \A id \in DOMAIN pre :
           (/\ ~pre[id].issued
            /\ Places(id) # {}
            /\ \A i \in Places(id) : ~Live(events[i]))
             => id \notin DOMAIN reminders
    /\ Launched \subseteq DOMAIN pre
    /\ (op # "idle" /\ ~Fetched) => DOMAIN reminders = DOMAIN pre

C4_Witness ==
    /\ op = "check_calendar:ok"
    /\ \E id \in DOMAIN pre :
         /\ ~pre[id].issued
         /\ now >= pre[id].reminder_time
         /\ \E i \in Places(id) : events[i].isCancelled
         /\ id \notin DOMAIN reminders

\* C5: issue_reminders spawns one command for each entry that is unissued
\* with its reminder time at or before current_time, and for no other;
\* it marks those entries issued and changes nothing else.
C5_DueIds == {id \in DOMAIN pre : ~pre[id].issued /\ pre[id].reminder_time <= now}

C5_ExactlyDue ==
    op = "issue_reminders" =>
      /\ Launched = C5_DueIds
      /\ Cardinality(popen) = Cardinality(C5_DueIds)
      /\ DOMAIN reminders = DOMAIN pre
      /\ \A id \in DOMAIN pre :
           reminders[id] = IF id \in C5_DueIds
                             THEN [pre[id] EXCEPT !.issued = TRUE]
                             ELSE pre[id]

\* a reminder whose time had passed is launched, another entry is not due
C5_Witness ==
    /\ op = "issue_reminders"
    /\ \E id \in Launched : pre[id].reminder_time < now
    /\ \E id \in DOMAIN pre : ~pre[id].issued /\ Untouched(id)

\* the least m with m minutes >= d clock units
CeilMinutes(d) == -((-d) \div (SecondsPerMinute * UnitsPerSecond))

\* C6 (as claimed): the minutes of a spawned command are the time from
\* current_time to the start, rounded up to whole minutes.
C6_MinutesRoundedUp ==
    op = "issue_reminders" =>
      \A c \in popen : c.minutes = CeilMinutes(pre[c.id].start - now)

\* C7: an unissued entry whose id is fetched again with the reminder on, not
\* cancelled and starting at current_time or later becomes the entry of the
\* fetched event: reminder time = its start minus its lead, its start,
\* subject and location, unissued.
C7_Refreshed ==
    op = "check_calendar:ok" =>
      \A id \in DOMAIN pre : \A i \in Places(id) :
        (~pre[id].issued /\ Live(events[i]) /\ events[i].start >= now)
          => id \in DOMAIN reminders /\ reminders[id] = EntryOf(events[i])

\* a meeting was moved: every field of the entry has changed
C7_Witness ==
    /\ op = "check_calendar:ok"
    /\ \E id \in DOMAIN pre : \E i \in Places(id) :
         /\ ~pre[id].issued /\ Live(events[i]) /\ events[i].start >= now
         /\ pre[id].start # reminders[id].start
         /\ pre[id].reminder_time # reminders[id].reminder_time
         /\ pre[id].subject # reminders[id].subject
         /\ pre[id].location # reminders[id].location

\* C8: an issued entry whose id is in the fetched list with the reminder on
\* and not cancelled is left as it was, whatever the fetched event says.
C8_IssuedUntouched ==
    Fetched =>
      \A id \in DOMAIN pre :
        (pre[id].issued /\ \E i \in Places(id) : Live(events[i]))
          => Untouched(id)

\* the fetched event differs from the issued entry
C8_Witness ==
    /\ op = "check_calendar:ok"
    /\ \E id \in DOMAIN pre : \E i \in Places(id) :
         /\ pre[id].issued /\ Live(events[i]) /\ events[i].start >= now
         /\ EntryOf(events[i]).start # pre[id].start
         /\ EntryOf(events[i]).subject # pre[id].subject
         /\ Untouched(id)

\* C9: every entry that check_calendar created or changed is the entry of a
\* fetched event (reminder on, not cancelled) that does not start before
\* current_time.
C9_NothingFromThePast ==
    Fetched =>
      \A id \in DOMAIN reminders :
        ~Untouched(id) =>
          \E i \in Places(id) :
            /\ Live(events[i])
            /\ ~(events[i].start < now)
            /\ reminders[id] = EntryOf(events[i])

\* an event in the past was fetched for an untracked id, and for a tracked
\* unissued one: neither was stored
C9_Witness ==
    /\ op = "check_calendar:ok"
    /\ \E i \in DOMAIN events :
         /\ Live(events[i]) /\ events[i].start < now
         /\ events[i].id \notin DOMAIN pre
         /\ events[i].id \notin DOMAIN reminders
    /\ \E i \in DOMAIN events :
         /\ Live(events[i]) /\ events[i].start < now
         /\ events[i].id \in DOMAIN pre /\ ~pre[events[i].id].issued
         /\ EntryOf(events[i]) # pre[events[i].id]
         /\ Untouched(events[i].id)

----------------------------------------------------------------------------
(* Properties of the mail high-water mark, checked under SpecMail *)

\* C10: no step lowers check_mail_last, and once set it is never None again.
C10_MarkMonotone ==
    [][check_mail_last # NoStamp =>
         (check_mail_last' # NoStamp /\ check_mail_last' >= check_mail_last)]_vars

\* a poll that is not quiet fetched only messages older than the mark, which
\* stayed where it was
C10_Witness ==
    /\ op = "check_mail:ok"
    /\ pre_mail.check_mail_last = MaxStamp
    /\ ~pre_mail.quiet
    /\ fetched.messages # <<>>
    /\ fetched.messages[1] # <<>>
    /\ \A i \in DOMAIN fetched.messages[1] :
         fetched.messages[1][i].receivedDateTime < pre_mail.check_mail_last
    /\ check_mail_last = MaxStamp

\* In a state whose op is a check_mail outcome, pre_mail holds check_mail_last,
\* n_msgs_last and quiet as the call found them, fetched the answers of its
\* remote calls, written what it wrote to the status icon.

\* check_mail returned after both remote calls answered
GotMessages == op = "check_mail:ok" /\ fetched.messages # <<>>

\* the fetched list (when GotMessages)
TheMessages == fetched.messages[1]

\* the fetched unread count (when the count call answered)
TheCount == fetched.n_msgs[1]

\* the popups written for single messages, and the closing ones
IsMessagePopup(c) == c.cmd = "popup" /\ "receivedDateTime" \in DOMAIN c
MessagePopups == SelectSeq(written, IsMessagePopup)
IsSummaryPopup(c) == c.cmd = "popup" /\ "receivedDateTime" \notin DOMAIN c
SummaryPopups == SelectSeq(written, IsSummaryPopup)

\* the times of arrival in a list
StampsOf(messages) == {messages[i].receivedDateTime : i \in DOMAIN messages}

\* the largest element of a set of numbers that is not empty
Largest(S) == CHOOSE x \in S : \A y \in S : y <= x

\* the message arrived after the mark the call found
ArrivedAfterMark(message) ==
    pre_mail.check_mail_last = NoStamp
      \/ message.receivedDateTime > pre_mail.check_mail_last

\* C11: after a check_mail that fetched a list that is not empty, quiet or
\* not, check_mail_last is the larger of its former value and the latest
\* time of arrival in the list (the latest time when it was None); a poll
\* that is not quiet and fetched two messages, both arrived after the mark,
\* wrote exactly two popups, one for each.
C11_MarkIsMaximum ==
    (GotMessages /\ TheMessages # <<>>) =>
      /\ check_mail_last =
           IF pre_mail.check_mail_last = NoStamp
                \/ Largest(StampsOf(TheMessages)) > pre_mail.check_mail_last
             THEN Largest(StampsOf(TheMessages))
             ELSE pre_mail.check_mail_last
      /\ (/\ ~pre_mail.quiet
          /\ Len(TheMessages) = 2
          /\ \A i \in DOMAIN TheMessages : ArrivedAfterMark(TheMessages[i]))
           => /\ Len(MessagePopups) = 2
              /\ SummaryPopups = <<>>
              /\ \A i \in 1..2 :
                   MessagePopups[i].receivedDateTime = TheMessages[i].receivedDateTime

\* two messages, the later one second, in a poll that is not quiet
C11_Witness ==
    /\ GotMessages
    /\ ~pre_mail.quiet
    /\ Len(TheMessages) = 2
    /\ TheMessages[1].receivedDateTime < TheMessages[2].receivedDateTime
    /\ \A i \in DOMAIN TheMessages : ArrivedAfterMark(TheMessages[i])
    /\ Len(MessagePopups) = 2
    /\ check_mail_last = TheMessages[2].receivedDateTime

\* C12: a check_mail that is not quiet writes no popup for a fetched message
\* whose receivedDateTime is the check_mail_last the call found.
C12_NoPopupAtMark ==
    (GotMessages /\ ~pre_mail.quiet) =>
      \A i \in DOMAIN MessagePopups :
        MessagePopups[i].receivedDateTime # pre_mail.check_mail_last

\* the list holds a message that arrived at the mark and an earlier one: the
\* popups are those of the earlier one only
C12_Witness ==
    /\ GotMessages
    /\ ~pre_mail.quiet
    /\ pre_mail.check_mail_last \in StampsOf(TheMessages)
    /\ MessagePopups # <<>>
    /\ \A i \in DOMAIN MessagePopups :
         MessagePopups[i].receivedDateTime < pre_mail.check_mail_last

\* C14: a check_mail that is not quiet writes at most MAIL_POPUP_LIMIT popups
\* of single messages, however many messages were fetched; for six fetched
\* messages that all arrived after the mark it writes four of them and then
\* the closing "Plus further message(s)" popup, once.
C14_PopupsCapped ==
    (GotMessages /\ ~pre_mail.quiet) =>
      /\ Len(MessagePopups) <= MAIL_POPUP_LIMIT
      /\ (/\ Len(TheMessages) = 6
          /\ \A i \in DOMAIN TheMessages : ArrivedAfterMark(TheMessages[i]))
           => /\ Len(MessagePopups) = MAIL_POPUP_LIMIT
              /\ SummaryPopups = <<PopupMore>>
              /\ written[Len(written) - 1] = PopupMore

\* C15: a check_mail that is not quiet writes the closing "Plus further
\* message(s)" popup exactly when more than MAIL_POPUP_LIMIT messages were
\* fetched, and then once.
C15_SummaryWhenPastLimit ==
    (GotMessages /\ ~pre_mail.quiet) =>
      SummaryPopups = IF Len(TheMessages) > MAIL_POPUP_LIMIT
                        THEN <<PopupMore>> ELSE <<>>

\* C16: a quiet check_mail writes no popup and no status:blink:1, whatever
\* was fetched, and leaves n_msgs_last and check_mail_last as a check_mail
\* that is not quiet leaves them after the same answers.
C16_QuietIsSilent ==
    (op = "check_mail:ok" /\ pre_mail.quiet) =>
      /\ \A i \in DOMAIN written :
           written[i].cmd # "popup" /\ written[i] # StatusBlink(1)
      /\ n_msgs_last = TheCount
      /\ check_mail_last =
           IF fetched.messages = <<>> \/ TheMessages = <<>>
             THEN pre_mail.check_mail_last
           ELSE IF pre_mail.check_mail_last = NoStamp
                     \/ Largest(StampsOf(TheMessages)) > pre_mail.check_mail_last
             THEN Largest(StampsOf(TheMessages))
           ELSE pre_mail.check_mail_last

\* the quiet poll fetched messages, wrote the count and nothing else, and
\* moved the mark
C16_Witness ==
    /\ GotMessages
    /\ pre_mail.quiet
    /\ Len(TheMessages) > MAIL_POPUP_LIMIT
    /\ written = <<StatusNMsgs(TheCount), EndOfCommands>>
    /\ check_mail_last = Largest(StampsOf(TheMessages))
    /\ n_msgs_last = TheCount

\* C18: check_mail writes status:blink:0 exactly when the unread count it
\* fetched is lower than n_msgs_last as the call found it, whether quiet
\* or not.
C18_BlinkOffIffFewer ==
    (op \in MailOps /\ fetched.n_msgs # <<>>) =>
      ((\E i \in DOMAIN written : written[i] = StatusBlink(0))
         <=> TheCount < pre_mail.n_msgs_last)

\* one unread message fewer than at the poll before: the LED is switched
\* off right after the count is shown
C18_Witness ==
    /\ op \in MailOps
    /\ fetched.n_msgs # <<>>
    /\ TheCount > 0
    /\ TheCount < pre_mail.n_msgs_last
    /\ written[1] = StatusNMsgs(TheCount)
    /\ written[2] = StatusBlink(0)

\* C19: every check_mail whose unread count fetch answered leaves
\* n_msgs_last at the fetched count: when quiet, when the count is 0, and
\* when get_new_messages fails afterwards.
C19_CountStored ==
    (op \in MailOps /\ fetched.n_msgs # <<>>) => n_msgs_last = TheCount

\* get_new_messages failed after a count other than the stored one
C19_Witness ==
    /\ op = "check_mail:messages_retry"
    /\ TheCount # pre_mail.n_msgs_last
    /\ n_msgs_last = TheCount

\* C13: when every answer of get_new_messages holds only messages received
\* at or after the check_mail_last passed to it (SpecInbox), no message gets
\* a popup of its own in more than one poll, whatever polls succeed or fail.
C13_ShownOnce == \A t \in Stamps : shown[t] <= 1

\* the message shown by an earlier poll is fetched again, with a later one:
\* only the later one is shown
C13_Witness ==
    /\ GotMessages
    /\ ~pre_mail.quiet
    /\ \E t \in StampsOf(TheMessages) :
         /\ t = pre_mail.check_mail_last
         /\ shown[t] = 1
         /\ \E u \in StampsOf(TheMessages) :
              /\ u > t
              /\ shown[u] = 1
              /\ Len(MessagePopups) = 1
              /\ MessagePopups[1].receivedDateTime = u

\* C17: a message that was unread when the checker started never gets a
\* popup, whether the first poll succeeds or fails and whatever polls follow.
C17_BacklogSilent == \A t \in backlog : shown[t] = 0

\* the handlers in which a remote call failed at once, those in which
\* get_new_messages failed after the unread count was fetched, and those in
\* which the last remote call answered
FailedAtOnce ==
    {"check_mail:count_retry", "check_mail:count_fatal",
     "check_calendar:retry", "check_calendar:fatal"}
FailedSecond == {"check_mail:messages_retry", "check_mail:messages_fatal"}
Answered == {"check_mail:ok", "check_calendar:ok", "check_calendar:raised"}

\* C20: a failed remote call (unread count, new messages, week events) adds
\* one to self.retries and a call that answers sets it to 0; the checker
\* shuts down exactly when a failure takes self.retries above MAX_RETRIES,
\* and any other failure only ends the current check_mail or
\* check_calendar, with nothing written for it and nothing else changed.
C20_RetriesCounted ==
    [][(op = "idle" /\ op' # "idle") =>
         /\ op' \in FailedAtOnce => retries' = retries + 1
         /\ op' \in FailedSecond => retries' = 0 + 1
         /\ op' \in Answered => retries' = 0
         /\ op' \in FailedAtOnce \cup FailedSecond =>
              IF retries' > MAX_RETRIES
                THEN /\ ~running'
                     /\ SubSeq(written', Len(written') - 1, Len(written')) = CleanupWrites
                ELSE /\ running'
                     /\ \A i \in DOMAIN written' :
                          written'[i].cmd \notin {"quit", "popup", "end"}
                     /\ UNCHANGED <<reminders, check_mail_last>>
         /\ op' = "check_mail:ok" => running'
         /\ op' = "check_calendar:ok" => running']_vars

\* five failures of get_week_events, then the first check_mail of the run
\* fails to get the unread count: the sixth failure in a row shuts the
\* checker down
C20_Witness ==
    /\ op = "check_mail:count_fatal"
    /\ pre_mail.quiet
    /\ retries = MAX_RETRIES + 1
    /\ ~running
    /\ written = CleanupWrites

\* the places of written that hold a popup, and those that hold status:blink:1
PopupPlaces == {i \in DOMAIN written : written[i].cmd = "popup"}
BlinkOnPlaces == {i \in DOMAIN written : written[i] = StatusBlink(1)}

\* the order of the commands of one check_mail: the count first, then
\* status:blink:0 if it is written, and each popup of a single message right
\* after a status:blink:1
C25_InOrder ==
    (op \in MailOps /\ written # <<>>) =>
      /\ written[1].cmd = "status:n_msgs"
      /\ \A i \in DOMAIN written :
           /\ written[i].cmd = "status:n_msgs" => i = 1
           /\ written[i] = StatusBlink(0) => i = 2
           /\ IsMessagePopup(written[i]) => (i - 1) \in BlinkOnPlaces
           /\ written[i] = StatusBlink(1) =>
                (i + 1) \in DOMAIN written /\ IsMessagePopup(written[i + 1])

\* C25: one check_mail writes status:n_msgs, then status:blink:0 (if any),
\* then for each message it shows status:blink:1 and right after it the
\* popup; every popup of the poll, the closing one included, comes after a
\* status:blink:1 of the same poll.
C25_PopupsAfterBlink ==
    /\ C25_InOrder
    /\ op \in MailOps =>
         \A i \in PopupPlaces : \E j \in BlinkOnPlaces : j < i

\* C21: when one remote call (here get_new_messages) fails every time it is
\* made, the checker shuts down in the end, though the other remote calls
\* answer in between.
C21_ShutsDown == <>(~running)

\* C22: whenever the checker has shut down because the retry counter exceeded
\* its maximum, an error dialog has been shown before the process exited.
C22_DialogOnExhaustion ==
    (~running /\ retries > MAX_RETRIES) => dialog

\* the passes in which main_loop is to call check_calendar: the first, and
\* every CALENDAR_MULTIPLE-th after it
CalendarTick(n) == (n - 1) % CALENDAR_MULTIPLE = 0

\* the handlers of pass n, in the order of their calls
HandlersOf(n) ==
    IF CalendarTick(n)
      THEN <<"check_mail", "check_calendar", "issue_reminders">>
      ELSE <<"check_mail", "issue_reminders">>

\* C24: every pass of main_loop calls check_mail and then issue_reminders;
\* check_calendar is called, between the two, in the first pass and in every
\* CALENDAR_MULTIPLE-th pass after it and in no other, also when the fetch
\* of the pass before failed and is waiting for its retry.
C24_Cadence ==
    /\ tick >= 1 =>
         /\ Len(ran) <= Len(HandlersOf(tick))
         /\ ran = SubSeq(HandlersOf(tick), 1, Len(ran))
    /\ stage = "sleep" => ran = HandlersOf(tick)

\* a pass without check_calendar has ended, after the fetch of the first pass
\* failed (the three failures are check_mail, check_calendar, check_mail)
C24_Witness ==
    /\ stage = "sleep"
    /\ tick = 2
    /\ retries = 3
    /\ ran = <<"check_mail", "issue_reminders">>

\* C30: the sleep that ends a pass lasts CHECK_INTERVAL less the clock
\* reading modulo CHECK_INTERVAL, which is more than 0 and at most
\* CHECK_INTERVAL, and the loop wakes up on a multiple of CHECK_INTERVAL
\* whatever the work of the pass took.
C30_SleepToMultiple ==
    (stage = "top" /\ tick >= 1) =>
      /\ slept = Interval - ((now - slept) % Interval)
      /\ slept > 0
      /\ slept <= Interval
      /\ now % Interval = 0

\* the work of the first pass took more than an interval
C30_Witness ==
    /\ stage = "top"
    /\ tick = 1
    /\ now = 2 * Interval
    /\ slept < Interval

\* a handler that ended because no access token could be got
TokenRejected == {"check_mail:token_rejected", "check_calendar:token_rejected"}

\* C23: when the token refresh is rejected in check_mail or check_calendar
\* the retry counter is not increased; at this first failure the error dialog
\* is shown and the checker shuts down, and nothing happens after it: no
\* poll, no fetch and no reminder launch.
C23_TokenRejectedIsFatal ==
    [][/\ op' \in TokenRejected =>
            /\ retries' \in {retries, 0}
            /\ dialog'
            /\ ~running'
            /\ popen' = {}
       /\ op \notin TokenRejected]_vars

\* the refresh was rejected in a check_mail that followed three failed calls
C23_Witness ==
    /\ op = "check_mail:token_rejected"
    /\ retries = 3
    /\ dialog
    /\ ~running

\* the ways into cleanup: a signal, the retries used up, an error caught by
\* main_loop
CleanupOps ==
    TokenRejected \cup {"signal", "check_mail:count_fatal",
                        "check_mail:messages_fatal", "check_calendar:fatal",
                        "check_calendar:raised"}

\* the places of "quit" in what is written to the status icon
QuitPlaces == {i \in DOMAIN written : written[i].cmd = "quit"}

\* C27: cleanup sends quit to the status icon and the process exits whether
\* or not the quit went through; from then on nothing happens (no poll, no
\* calendar fetch, no reminder launch), and quit is the last command sent,
\* followed only by the empty line that ends the commands.
C27_CleanupIsFinal ==
    [][/\ running
       /\ op' \in CleanupOps =>
            /\ ~running'
            /\ QuitPlaces' = {Len(written') - 1}
            /\ written'[Len(written')] = [cmd |-> "newline"]
       /\ ~running' => op' \in CleanupOps]_vars

\* a signal has ended the checker in its second pass, and the quit did not
\* reach the status icon
C27_Witness ==
    /\ op = "signal"
    /\ tick = 2
    /\ ~running
    /\ ~quit_delivered

\* how many of the attempts ended as how
Ended(how) == Cardinality({i \in DOMAIN attempts : attempts[i] = how})

\* C26: statusicon_communicate makes at most MAX_STATUS_ICON_RETRIES writes
\* and then returns; a write that goes through is the last one, so the status
\* icon gets the command at most once; the status icon is started again
\* after a 'Broken pipe' and after nothing else; and when every write has
\* failed the function returns normally with the command not delivered.
C26_BoundedDelivery ==
    /\ Len(attempts) <= MAX_STATUS_ICON_RETRIES
    /\ icon_pc = "write" => Len(attempts) < MAX_STATUS_ICON_RETRIES /\ got = 0
    /\ \A i \in DOMAIN attempts : attempts[i] = "ok" => i = Len(attempts)
    /\ got = Ended("ok")
    /\ got <= 1
    /\ respawned = Ended("Broken pipe")
    /\ statusicon >= 1 + respawned
    /\ (icon_pc = "return" /\ Ended("ok") = 0) =>
         Len(attempts) = MAX_STATUS_ICON_RETRIES /\ got = 0

\* both writes of quit have failed, the first with a broken pipe
C26_Witness ==
    /\ icon_pc = "return"
    /\ command = "quit"
    /\ attempts = <<"Broken pipe", "IOError">>
    /\ got = 0
    /\ respawned = 1

\* what the claim says of one call of get_access_token, but for the time
\* left: the token of the session is returned, with no call of the endpoint,
\* exactly when it is not empty and int(time.time()) is not after
\* expires_at; else the endpoint is called once, and what it grants is
\* stored, with expires_at the second of the refresh + expires_in -
\* TOKEN_EXPIRY_THRESHOLD, and returned
CachedOrRefreshed ==
    handed' # NoHandout =>
      /\ handed'.contacts = 0 <=>
           (access_token # NoToken /\ Seconds(now) <= expires_at)
      /\ handed'.contacts = 0 =>
           /\ handed'.token = access_token
           /\ UNCHANGED <<access_token, expires_at, real_expiry>>
      /\ handed'.contacts # 0 =>
           /\ handed'.contacts = 1
           /\ handed'.token # NoToken =>
                /\ handed'.token = access_token'
                /\ access_token' # access_token
                /\ expires_at' = Seconds(now)
                                   + (real_expiry' - now) \div UnitsPerSecond
                                   - TOKEN_EXPIRY_THRESHOLD

C29_FourFields ==
    line_pc = "split" =>
      /\ Len(split_line) = 4
      /\ split_line[1] = <<"popup">>
      /\ Unescape(split_line[2]) = name
      /\ Unescape(split_line[3]) = title
      /\ split_line[4] = address

\* C31: in a check_mail that is not quiet, every fetched message that arrived
\* after the mark the call found has a popup of its own or, when it is
\* passed over by the limit, the closing "Plus further message(s)" popup
\* stands for it; both are written in this call, which then moves the mark
\* up to the message or beyond.
C31_NoneUnannounced ==
    (GotMessages /\ ~pre_mail.quiet) =>
      \A i \in DOMAIN TheMessages :
        ArrivedAfterMark(TheMessages[i]) =>
          /\ \/ \E j \in DOMAIN MessagePopups :
                  MessagePopups[j] = Popup(TheMessages[i])
             \/ i > MAIL_POPUP_LIMIT /\ SummaryPopups # <<>>
          /\ check_mail_last >= TheMessages[i].receivedDateTime

\* five messages after the mark: the fifth, the only one of its time, has
\* no popup of its own and the closing popup stands for it
C31_Witness ==
    /\ GotMessages
    /\ ~pre_mail.quiet
    /\ Len(TheMessages) = 5
    /\ \A i \in DOMAIN TheMessages : ArrivedAfterMark(TheMessages[i])
    /\ \A j \in DOMAIN MessagePopups : MessagePopups[j] # Popup(TheMessages[5])
    /\ SummaryPopups = <<PopupMore>>

\* C32: a check_mail that ends because get_num_messages failed, with the
\* retries not used up, leaves n_msgs_last and check_mail_last as they were
\* and writes nothing to the status icon; one that ends because
\* get_new_messages failed leaves check_mail_last as it was and writes no
\* popup and no status:blink:1.
C32_FailedPollSkipped ==
    /\ op = "check_mail:count_retry" =>
         /\ running
         /\ n_msgs_last = pre_mail.n_msgs_last
         /\ check_mail_last = pre_mail.check_mail_last
         /\ written = <<>>
    /\ op = "check_mail:messages_retry" =>
         /\ running
         /\ check_mail_last = pre_mail.check_mail_last
         /\ \A i \in DOMAIN written :
              written[i].cmd # "popup" /\ written[i] # StatusBlink(1)

\* get_new_messages failed in a poll that had a mark and had written the
\* count
C32_Witness ==
    /\ op = "check_mail:messages_retry"
    /\ pre_mail.check_mail_last # NoStamp
    /\ check_mail_last = pre_mail.check_mail_last
    /\ written # <<>>

\* the ids whose reminder is due: tracked, not issued, reminder time reached
DueNow == {id \in DOMAIN reminders :
             ~reminders[id].issued /\ reminders[id].reminder_time <= now}

\* C33: a check_calendar that ends because get_week_events failed, with
\* the retries not used up, leaves self.reminders exactly as it was and
\* launches nothing; main_loop goes on to the issue_reminders of the same
\* pass, which launches the reminders that are due in these entries.
C33_FailedFetchKeepsEntries ==
    [][/\ op' = "check_calendar:retry" =>
            /\ reminders' = reminders
            /\ popen' = {}
            /\ running'
       /\ (op = "check_calendar:retry" /\ op' = "idle") =>
            /\ reminders' = reminders
            /\ stage' = "reminders"
       /\ (op = "idle" /\ stage = "reminders" /\ op' # "signal") =>
            /\ op' = "issue_reminders"
            /\ {c.id : c \in popen'} = DueNow
            /\ DOMAIN reminders' = DOMAIN reminders]_vars

\* the fetch of this pass has failed (the retries count it) and the
\* issue_reminders after it has launched a reminder of an old entry
C33_Witness ==
    /\ op = "issue_reminders"
    /\ ran = <<"check_mail", "check_calendar">>
    /\ retries >= 1
    /\ popen # {}

\* C34: every check_mail that returns after writing a command to the status
\* icon has written the empty line that ends the commands as its last
\* write.
C34_CommandsEnded ==
    (op \in MailOps /\ written # <<>>) => written[Len(written)] = EndOfCommands

\* the places of the fetched list that name id with the reminder on, not
\* cancelled
LivePlaces(id) == {i \in Places(id) : Live(events[i])}

\* what issue_reminders does with the entries it finds unissued: the due
\* ones are launched, by their reminder time, whenever their start is
LaunchedWhenDue ==
    op = "issue_reminders" =>
      \A id \in DOMAIN pre :
        (~pre[id].issued /\ pre[id].reminder_time <= now) => id \in Launched

C36_FiredAgain ==
    /\ op = "check_calendar:ok" =>
         \A id \in fired \ DOMAIN pre :
           (/\ Cardinality(LivePlaces(id)) = 1
            /\ \A i \in LivePlaces(id) : events[i].start >= now)
             => /\ id \in DOMAIN reminders
                /\ ~reminders[id].issued
    /\ op = "issue_reminders" =>
         \A id \in fired \cap DOMAIN pre :
           (~pre[id].issued /\ pre[id].reminder_time <= now) => id \in Launched

\* a reminder is launched for an id that had one before
C36_Witness ==
    /\ op = "issue_reminders"
    /\ fired \cap Launched # {}

\* the list names id twice or more with the reminder on, not cancelled
NamedTwice(id) == Cardinality(LivePlaces(id)) >= 2

\* such an occurrence of id comes after another one at which the id is
\* tracked or gets tracked: the id was tracked before the fetch, or the
\* earlier occurrence has not started yet and is stored
PoppedTwice(id) ==
    \E j, k \in LivePlaces(id) :
      k < j /\ (id \in DOMAIN pre \/ events[k].start >= now)

\* the error of check_calendar ends in the dialog and in cleanup
RaisedIsFatal ==
    op = "check_calendar:raised" =>
      /\ dialog
      /\ ~running
      /\ written = CleanupWrites

\* C37 (as claimed): check_calendar completes for every fetched list in
\* which no id is named twice by events with the reminder on and not
\* cancelled, and raises KeyError at the second occurrence when one is;
\* main_loop answers the error with the dialog and the shutdown.
C37_RaisesWhenNamedTwice ==
    /\ Fetched =>
         (op = "check_calendar:raised" <=> \E id \in Ids : NamedTwice(id))
    /\ RaisedIsFatal

\* C37 (amended): check_calendar completes for every fetched list in which
\* no id is named twice by such events; it raises KeyError exactly when an
\* id is named again after an occurrence at which it is tracked (it was
\* tracked before the fetch) or stored (the occurrence has not started
\* yet); main_loop answers the error with the dialog and the shutdown.
C37_RaisesWhenPoppedTwice ==
    /\ Fetched =>
         /\ (\A id \in Ids : ~NamedTwice(id)) => op = "check_calendar:ok"
         /\ op = "check_calendar:raised" <=> \E id \in Ids : PoppedTwice(id)
    /\ RaisedIsFatal

\* an id that was not tracked is named twice, the first time not yet
\* started: the error, the dialog and the shutdown
C37_Witness ==
    /\ op = "check_calendar:raised"
    /\ dialog
    /\ ~running
    /\ \E id \in Ids \ DOMAIN pre : PoppedTwice(id)

\* C38: a refresh that is rejected leaves access_token, refresh_token and
\* expires_at of the session as they were; after a refresh that is granted
\* the three come from the same answer: the refresh token is the one that
\* came with the access token, and expires_at is the second at which that
\* access token was granted plus its expires_in less the threshold.
FromOneAnswer ==
    access_token # NoToken =>
      /\ refresh_token = access_token
      /\ expires_at * UnitsPerSecond
           <= real_expiry - TOKEN_EXPIRY_THRESHOLD * UnitsPerSecond
      /\ (expires_at + 1) * UnitsPerSecond
           > real_expiry - TOKEN_EXPIRY_THRESHOLD * UnitsPerSecond
----------------------------------------------------------------------------
(* Properties of the calendar popup, checked under SpecPopup *)

\* C39: whatever minutes the popup was launched with, a popup the user has
\* not dismissed is closed once a tick has brought its countdown to
\* GIVE_UP_TICKS minutes after the start of the meeting or further: after
\* a tick, a popup still in gtk.main() has a countdown above -GIVE_UP_TICKS.
C39_ClosedAfterGiveUpTicks ==
    (popup_pc = "main" /\ timer < minutes_total) => timer > 0 - GIVE_UP_TICKS

====
